---- MODULE Spec2Model ----
(***************************************************************************)
(* Model of src/OR.py: class TransportationSolver.                         *)
(*                                                                         *)
(* Python lists are modelled as functions over 0 .. len-1, so every index  *)
(* of the model is the index of the code (cursor i, j, dummy_col = n - 1,  *)
(* the sentinel -1).  The solver object is the record `self`; the locals   *)
(* of the running solve method are the other variables.  One solve method  *)
(* runs at a time (the program is single threaded); one loop iteration of  *)
(* a method is one action.                                                 *)
(***************************************************************************)
EXTENDS Integers, Sequences, FiniteSets

\* The explored inputs: the numbers of sources and of destinations handed to
\* the constructor (balancing may add one of either), the greatest unit cost
\* and the greatest supply or demand of one source or destination.
SourceCounts == {1, 2}
DestinationCounts == {1, 2}
MaxCost == 1
MaxQty == 2

VARIABLES
    arg,     \* the constructor's arguments (cost_matrix, supply, demand)
    self,    \* the TransportationSolver object
    pc,      \* "idle" | "nwc" | "lcm" | "lcm_dummy" | "vam" | "done"
    method,  \* the method that is running or has just finished
    loc,     \* the locals of the running solve method, see EnterLocals
    total,   \* value returned by _print_cost_equation (-1 before)
    reused,  \* TRUE once a solve method has returned on this object
    initial_table  \* the table _print_initial_table printed last (None before)

vars == <<arg, self, pc, method, loc, total, reused, initial_table>>

----------------------------------------------------------------------------
\* Python list helpers.

\* range(k)
Range(k) == 0 .. (k - 1)

\* sum(v) for a list v of length len
RECURSIVE SumTo(_, _)
SumTo(v, len) == IF len = 0 THEN 0 ELSE v[len - 1] + SumTo(v, len - 1)

\* v.append(e) for a list v of length len
ListAppend(v, len, e) == [k \in Range(len + 1) |-> IF k < len THEN v[k] ELSE e]

\* [e] * len
Repeat(e, len) == [k \in Range(len) |-> e]

\* A plausible slip: the greater of the two is allocated.
MinTakesGreater(a, b) == IF a <= b THEN b ELSE a

\* min(a, b)
Min(a, b) == IF a <= b THEN a ELSE b

\* int(c) of a cost: the costs of the model are integers, which int() keeps.
IntOf(c) == c

----------------------------------------------------------------------------
\* __init__ and _balance_problem.

\* A plausible slip of _balance_problem: the dummy is added only when the
\* supply exceeds the demand.
BalanceProblemNoDummySupply(o) ==
    IF o.total_supply > o.total_demand
    THEN [o EXCEPT
            !.demand = ListAppend(o.demand, o.n, o.total_supply - o.total_demand),
            !.cost_matrix = [r \in Range(o.m) |-> ListAppend(o.cost_matrix[r], o.n, 0)],
            !.dummy_type = "demand",
            !.n = o.n + 1]
    ELSE o

\* A plausible slip of _balance_problem: the dummy source ships at cost 1.
BalanceProblemCostlyDummy(o) ==
    IF o.total_supply > o.total_demand
    THEN [o EXCEPT
            !.demand = ListAppend(o.demand, o.n, o.total_supply - o.total_demand),
            !.cost_matrix = [r \in Range(o.m) |-> ListAppend(o.cost_matrix[r], o.n, 0)],
            !.dummy_type = "demand",
            !.n = o.n + 1]
    ELSE IF o.total_supply < o.total_demand
    THEN [o EXCEPT
            !.supply = ListAppend(o.supply, o.m, o.total_demand - o.total_supply),
            !.cost_matrix = ListAppend(o.cost_matrix, o.m, Repeat(1, o.n)),
            !.dummy_type = "supply",
            !.m = o.m + 1]
    ELSE o

\* _balance_problem: the object after the call.
BalanceProblem(o) ==
    IF o.total_supply > o.total_demand
    THEN [o EXCEPT
            !.demand = ListAppend(o.demand, o.n, o.total_supply - o.total_demand),
            !.cost_matrix = [r \in Range(o.m) |-> ListAppend(o.cost_matrix[r], o.n, 0)],
            !.dummy_type = "demand",
            !.n = o.n + 1]
    ELSE IF o.total_supply < o.total_demand
    THEN [o EXCEPT
            !.supply = ListAppend(o.supply, o.m, o.total_demand - o.total_supply),
            !.cost_matrix = ListAppend(o.cost_matrix, o.m, Repeat(0, o.n)),
            !.dummy_type = "supply",
            !.m = o.m + 1]
    ELSE o

\* __init__: copies of the arguments, the lengths, the totals, then balancing.
\* len_s and len_d are len(supply) and len(demand).
TransportationSolver(cost_matrix, supply, demand, len_s, len_d) ==
    BalanceProblem([cost_matrix  |-> cost_matrix,
                    supply       |-> supply,
                    demand       |-> demand,
                    m            |-> len_s,
                    n            |-> len_d,
                    total_supply |-> SumTo(supply, len_s),
                    total_demand |-> SumTo(demand, len_d),
                    dummy_type   |-> "None"])

----------------------------------------------------------------------------
\* _print_cost_equation: the returned total.

\* The running total after the cells 0 .. k-1 of the row-major scan.
RECURSIVE CostTotalTo(_, _, _)
CostTotalTo(o, a, k) ==
    IF k = 0 THEN 0
    ELSE LET r == (k - 1) \div o.n
             c == (k - 1) % o.n
             q == a[r][c]
             is_dummy == (o.dummy_type = "demand" /\ c = o.n - 1)
         IN  CostTotalTo(o, a, k - 1)
               + (IF q > 0 /\ ~is_dummy THEN IntOf(o.cost_matrix[r][c]) * q ELSE 0)

PrintCostEquation(o, a) == CostTotalTo(o, a, o.m * o.n)

----------------------------------------------------------------------------
\* Locals shared by the three solve methods.

None == <<>>

\* alloc = [[0] * self.n for _ in range(self.m)]
ZeroMatrix(o) == [r \in Range(o.m) |-> Repeat(0, o.n)]

\* The locals of a solve method when its loop starts.  alloc, s, d, step, x,
\* i, j, active_rows and active_cols are the locals of the code (None for a
\* local the method does not have, -1 for one not yet assigned); visited is
\* the number of iterations the `for` loop of the dummy pass has made; broke
\* tells that a `break` was taken; max_pen, is_row and idx are the target of
\* the last iteration of solve_vam.  The other fields record the run: log is
\* the sequence of steps <<i, j, x>> (one per step table), before holds s, d
\* and alloc as they were before the last step, shipped sums the quantities
\* allocated per cell and writes counts the assignments per cell.
EnterLocals(o) ==
    [alloc       |-> ZeroMatrix(o),
     s           |-> o.supply,
     d           |-> o.demand,
     step        |-> 1,
     x           |-> -1,
     i           |-> -1,
     j           |-> -1,
     active_rows |-> None,
     active_cols |-> None,
     max_pen     |-> -1,
     is_row      |-> TRUE,
     idx         |-> -1,
     visited     |-> 0,
     broke       |-> FALSE,
     log         |-> <<>>,
     before      |-> None,
     shipped     |-> ZeroMatrix(o),
     writes      |-> ZeroMatrix(o)]

\* No method is running.
NoLocals ==
    [alloc |-> None, s |-> None, d |-> None, step |-> 0, x |-> -1, i |-> -1,
     j |-> -1, active_rows |-> None, active_cols |-> None, max_pen |-> -1,
     is_row |-> TRUE, idx |-> -1, visited |-> 0,
     broke |-> FALSE, log |-> <<>>, before |-> None, shipped |-> None,
     writes |-> None]

\* x = q; alloc[r][c] = x; s[r] -= x; d[c] -= x; the step table; step += 1
Allocated(st, r, c, q) ==
    [st EXCEPT !.x = q,
               !.alloc[r][c] = q,
               !.s[r] = @ - q,
               !.d[c] = @ - q,
               !.step = @ + 1,
               !.log = Append(@, <<r, c, q>>),
               !.before = [s |-> st.s, d |-> st.d, alloc |-> st.alloc],
               !.shipped[r][c] = @ + q,
               !.writes[r][c] = @ + 1]

\* s = self.supply[:] and d = self.demand[:] are copies: the writes to s and d
\* leave self.supply and self.demand alone.  The value of self.supply after a
\* step that left the local list s2; with `s = self.supply` it would be s2.
SupplyAliased(sup, s2) == s2
SupplyAfterStep(sup, s2) == sup

DemandAfterStep(dem, d2) == dem

\* The object after a step of a solve method.
SelfAfterStep(o, st) ==
    [o EXCEPT !.supply = SupplyAfterStep(o.supply, st.s),
              !.demand = DemandAfterStep(o.demand, st.d)]

\* _print_initial_table: the rows handed to tabulate.  Each source row holds
\* the costs of the row (printed after a "$") and the supply of the source.
\* The Demand row is built by a loop over `mahoun` that appends
\* self.demand[j]: j is the variable of the cost loop above it, which that
\* loop left at self.n - 1 (the object has at least one source and one
\* destination).  Its last cell is self.total_supply.
PrintInitialTable(o) ==
    LET j == o.n - 1
    IN  [rows    |-> [r \in Range(o.m) |->
                        [costs  |-> [c \in Range(o.n) |-> IntOf(o.cost_matrix[r][c])],
                         supply |-> IntOf(o.supply[r])]],
         dem_row |-> [mahoun \in Range(o.n) |-> IntOf(o.demand[j])],
         total   |-> IntOf(o.total_supply)]

\* The entry of a solve method up to its loop.
Enter(name, label, st) ==
    /\ pc' = label
    /\ method' = name
    /\ initial_table' = PrintInitialTable(self)
    /\ loc' = st
    /\ total' = -1
    /\ UNCHANGED <<reused, arg, self>>

\* One iteration of a loop that makes the locals st and stays in the loop.
Iterate(st) ==
    /\ loc' = st
    /\ self' = SelfAfterStep(self, st)
    /\ UNCHANGED <<reused, initial_table, arg, method>>

\* _print_final_allocation and _print_cost_equation at the end of a method.
Finish ==
    /\ pc' = "done"
    /\ total' = PrintCostEquation(self, loc.alloc)
    /\ UNCHANGED <<reused, initial_table, arg, method>>

----------------------------------------------------------------------------
\* solve_nwc

\* A plausible slip: an exhausted row moves the cursor right, an exhausted
\* column moves it down.
NwcAdvanceSwapped(o, r, c, s2, d2) ==
    IF s2[r] = 0 /\ d2[c] = 0
    THEN IF c + 1 < o.n THEN <<r, c + 1>> ELSE <<r + 1, c>>
    ELSE IF s2[r] = 0 THEN <<r, c + 1>>
    ELSE IF d2[c] = 0 THEN <<r + 1, c>>
    ELSE <<r, c>>

\* The cursor after the allocation at (r, c) that left s2 and d2.
NwcAdvance(o, r, c, s2, d2) ==
    IF s2[r] = 0 /\ d2[c] = 0
    THEN IF c + 1 < o.n THEN <<r, c + 1>> ELSE <<r + 1, c>>
    ELSE IF s2[r] = 0 THEN <<r + 1, c>>
    ELSE IF d2[c] = 0 THEN <<r, c + 1>>
    ELSE <<r, c>>

\* i = j = 0
NwcEnter(o) == [EnterLocals(o) EXCEPT !.i = 0, !.j = 0]

\* while i < self.m and j < self.n
NwcCond(o, st) == st.i < o.m /\ st.j < o.n

\* The locals after one iteration of the loop.
NwcIter(o, st) ==
    LET a == Allocated(st, st.i, st.j, Min(st.s[st.i], st.d[st.j]))
        next == NwcAdvance(o, st.i, st.j, a.s, a.d)
    IN  [a EXCEPT !.i = next[1], !.j = next[2]]

SolveNwc ==
    /\ pc = "idle"
    /\ Enter("nwc", "nwc", NwcEnter(self))

NwcStep ==
    /\ pc = "nwc"
    /\ NwcCond(self, loc)
    /\ Iterate(NwcIter(self, loc))
    /\ UNCHANGED <<pc, total>>

NwcEnd ==
    /\ pc = "nwc"
    /\ ~NwcCond(self, loc)
    /\ Finish
    /\ UNCHANGED <<self, loc>>

----------------------------------------------------------------------------
\* _find_min_cost

NoCell == [i |-> -1, j |-> -1]

\* A plausible slip of the scan: the excluded column is not skipped.
MinCostScanNoExclude(o, s2, d2, exclude_col, k) ==
    LET RECURSIVE Scan(_)
        Scan(q) ==
            IF q = 0 THEN NoCell
            ELSE LET best == Scan(q - 1)
                     r == (q - 1) \div o.n
                     c == (q - 1) % o.n
                 IN  IF s2[r] = 0 \/ d2[c] = 0 THEN best
                     ELSE IF best.i = -1
                             \/ o.cost_matrix[r][c] < o.cost_matrix[best.i][best.j]
                          THEN [i |-> r, j |-> c]
                          ELSE best
    IN  Scan(k)

\* A plausible slip of the scan: exhausted rows are not skipped.
MinCostScanKeepsRows(o, s2, d2, exclude_col, k) ==
    LET RECURSIVE Scan(_)
        Scan(q) ==
            IF q = 0 THEN NoCell
            ELSE LET best == Scan(q - 1)
                     r == (q - 1) \div o.n
                     c == (q - 1) % o.n
                 IN  IF d2[c] = 0 \/ c = exclude_col THEN best
                     ELSE IF best.i = -1
                             \/ o.cost_matrix[r][c] < o.cost_matrix[best.i][best.j]
                          THEN [i |-> r, j |-> c]
                          ELSE best
    IN  Scan(k)

\* (min_i, min_j) after the first k cells of the row-major scan; min_cost is
\* the cost of that cell, or float("inf") while min_i = -1.
RECURSIVE MinCostScan(_, _, _, _, _)
MinCostScan(o, s2, d2, exclude_col, k) ==
    IF k = 0 THEN NoCell
    ELSE LET best == MinCostScan(o, s2, d2, exclude_col, k - 1)
             r == (k - 1) \div o.n
             c == (k - 1) % o.n
         IN  IF s2[r] = 0 THEN best
             ELSE IF d2[c] = 0 \/ c = exclude_col THEN best
             ELSE IF best.i = -1
                     \/ o.cost_matrix[r][c] < o.cost_matrix[best.i][best.j]
                  THEN [i |-> r, j |-> c]
                  ELSE best

FindMinCost(o, s2, d2, exclude_col) == MinCostScan(o, s2, d2, exclude_col, o.m * o.n)

----------------------------------------------------------------------------
\* solve_least_cost

\* dummy_col = self.n - 1 if self.dummy_type == "demand" else -1
DummyCol(o) == IF o.dummy_type = "demand" THEN o.n - 1 ELSE -1

\* A plausible slip: the loop condition looks at the dummy column too.
LcmLoopCondAllColumns(o, d2) == \E c \in Range(o.n) : d2[c] > 0

\* The condition of the while loop: some real destination has demand left.
LcmLoopCond(o, d2) ==
    \E c \in Range(o.n - (IF DummyCol(o) >= 0 THEN 1 ELSE 0)) : d2[c] > 0

\* The sources the dummy pass still has to visit and will allocate from.
DummyPassRows(o, s2, d2, from) ==
    {r \in from .. (o.m - 1) : s2[r] > 0 /\ d2[DummyCol(o)] > 0}

SetMin(S) == CHOOSE e \in S : \A f \in S : e <= f

\* One iteration of the while loop; the `break` leaves the loop.
LcmIter(o, st) ==
    LET f == FindMinCost(o, st.s, st.d, DummyCol(o))
    IN  IF f.i = -1 THEN [st EXCEPT !.broke = TRUE]
        ELSE [Allocated(st, f.i, f.j, Min(st.s[f.i], st.d[f.j]))
                EXCEPT !.i = f.i, !.j = f.j]

\* The next iteration of `for i in range(self.m)` whose condition holds (the
\* iterations before it change nothing).
LcmDummyIter(o, st) ==
    LET r == SetMin(DummyPassRows(o, st.s, st.d, st.visited))
    IN  [Allocated(st, r, DummyCol(o), Min(st.s[r], st.d[DummyCol(o)]))
           EXCEPT !.i = r, !.visited = r + 1]

\* The dummy pass has an iteration left that allocates.
LcmDummyCond(o, st) ==
    DummyCol(o) >= 0 /\ DummyPassRows(o, st.s, st.d, st.visited) # {}

SolveLeastCost ==
    /\ pc = "idle"
    /\ Enter("lcm", "lcm", EnterLocals(self))

LcmStep ==
    /\ pc = "lcm"
    /\ LcmLoopCond(self, loc.d)
    /\ Iterate(LcmIter(self, loc))
    /\ pc' = IF loc'.broke THEN "lcm_dummy" ELSE "lcm"
    /\ UNCHANGED total

\* The while loop ends; the dummy pass starts.
LcmLoopExit ==
    /\ pc = "lcm"
    /\ ~LcmLoopCond(self, loc.d)
    /\ pc' = "lcm_dummy"
    /\ UNCHANGED <<reused, initial_table, arg, self, method, loc, total>>

LcmDummyStep ==
    /\ pc = "lcm_dummy"
    /\ LcmDummyCond(self, loc)
    /\ Iterate(LcmDummyIter(self, loc))
    /\ UNCHANGED <<pc, total>>

LcmEnd ==
    /\ pc = "lcm_dummy"
    /\ ~LcmDummyCond(self, loc)
    /\ Finish
    /\ UNCHANGED <<self, loc>>

----------------------------------------------------------------------------
\* solve_vam

\* costs.sort(): insertion of e into a sorted list, then the sorted list.
RECURSIVE Insert(_, _)
Insert(e, sorted) ==
    IF sorted = <<>> THEN <<e>>
    ELSE IF e <= Head(sorted) THEN <<e>> \o sorted
    ELSE <<Head(sorted)>> \o Insert(e, Tail(sorted))

RECURSIVE Sort(_)
Sort(costs) == IF costs = <<>> THEN <<>> ELSE Insert(Head(costs), Sort(Tail(costs)))

\* costs[1] - costs[0] of the sorted list, 0 for one cost, -1 for none.
Penalty(costs) ==
    IF Len(costs) >= 2 THEN Sort(costs)[2] - Sort(costs)[1]
    ELSE IF Len(costs) = 1 THEN 0
    ELSE -1

\* [cost_matrix[r][c] for c in range(n) if active_cols[c] and d[c] > 0]
RECURSIVE RowCosts(_, _, _, _, _)
RowCosts(o, r, ac, d2, k) ==
    IF k = 0 THEN <<>>
    ELSE IF ac[k - 1] /\ d2[k - 1] > 0
         THEN Append(RowCosts(o, r, ac, d2, k - 1), o.cost_matrix[r][k - 1])
         ELSE RowCosts(o, r, ac, d2, k - 1)

\* [cost_matrix[r][c] for r in range(m) if active_rows[r] and s[r] > 0]
RECURSIVE ColCosts(_, _, _, _, _)
ColCosts(o, c, ar, s2, k) ==
    IF k = 0 THEN <<>>
    ELSE IF ar[k - 1] /\ s2[k - 1] > 0
         THEN Append(ColCosts(o, c, ar, s2, k - 1), o.cost_matrix[k - 1][c])
         ELSE ColCosts(o, c, ar, s2, k - 1)

RowPen(o, ar, ac, s2, d2) ==
    [r \in Range(o.m) |->
        IF ~ar[r] \/ s2[r] = 0 THEN -1
        ELSE Penalty(RowCosts(o, r, ac, d2, o.n))]

ColPen(o, ar, ac, s2, d2) ==
    [c \in Range(o.n) |->
        IF ~ac[c] \/ d2[c] = 0 THEN -1
        ELSE Penalty(ColCosts(o, c, ar, s2, o.m))]

\* A plausible slip: `>=` for `>`, so that the last of equal penalties wins.
MaxPenScanLastWins(o, row_pen, col_pen, k) ==
    LET RECURSIVE Scan(_)
        Scan(q) ==
            IF q = 0 THEN [max_pen |-> -1, is_row |-> TRUE, idx |-> -1]
            ELSE LET best == Scan(q - 1)
                 IN  IF q - 1 < o.m
                     THEN IF row_pen[q - 1] >= best.max_pen /\ row_pen[q - 1] >= 0
                          THEN [max_pen |-> row_pen[q - 1], is_row |-> TRUE,
                                idx |-> q - 1]
                          ELSE best
                     ELSE IF col_pen[q - 1 - o.m] >= best.max_pen
                             /\ col_pen[q - 1 - o.m] >= 0
                          THEN [max_pen |-> col_pen[q - 1 - o.m], is_row |-> FALSE,
                                idx |-> q - 1 - o.m]
                          ELSE best
    IN  Scan(k)

\* (max_pen, is_row, idx) after the first k entries of the scan: the rows
\* 0 .. m-1, then the columns 0 .. n-1.
RECURSIVE MaxPenScan(_, _, _, _)
MaxPenScan(o, row_pen, col_pen, k) ==
    IF k = 0 THEN [max_pen |-> -1, is_row |-> TRUE, idx |-> -1]
    ELSE LET best == MaxPenScan(o, row_pen, col_pen, k - 1)
         IN  IF k - 1 < o.m
             THEN IF row_pen[k - 1] > best.max_pen
                  THEN [max_pen |-> row_pen[k - 1], is_row |-> TRUE, idx |-> k - 1]
                  ELSE best
             ELSE IF col_pen[k - 1 - o.m] > best.max_pen
                  THEN [max_pen |-> col_pen[k - 1 - o.m], is_row |-> FALSE,
                        idx |-> k - 1 - o.m]
                  ELSE best

MaxPenalty(o, row_pen, col_pen) == MaxPenScan(o, row_pen, col_pen, o.m + o.n)

\* A plausible slip: exhausted columns are not skipped.
RowMinScanKeepsCols(o, r, ac, d2, k) ==
    LET RECURSIVE Scan(_)
        Scan(q) ==
            IF q = 0 THEN NoCell
            ELSE LET best == Scan(q - 1)
                 IN  IF best.i = -1
                        \/ o.cost_matrix[r][q - 1] < o.cost_matrix[best.i][best.j]
                     THEN [i |-> r, j |-> q - 1]
                     ELSE best
    IN  Scan(k)

\* The cheapest cell of row r among its first k columns.
RECURSIVE RowMinScan(_, _, _, _, _)
RowMinScan(o, r, ac, d2, k) ==
    IF k = 0 THEN NoCell
    ELSE LET best == RowMinScan(o, r, ac, d2, k - 1)
         IN  IF ac[k - 1] /\ d2[k - 1] > 0
                /\ (best.i = -1
                    \/ o.cost_matrix[r][k - 1] < o.cost_matrix[best.i][best.j])
             THEN [i |-> r, j |-> k - 1]
             ELSE best

\* A plausible slip: exhausted rows are not skipped.
ColMinScanKeepsRows(o, c, ar, s2, k) ==
    LET RECURSIVE Scan(_)
        Scan(q) ==
            IF q = 0 THEN NoCell
            ELSE LET best == Scan(q - 1)
                 IN  IF best.i = -1
                        \/ o.cost_matrix[q - 1][c] < o.cost_matrix[best.i][best.j]
                     THEN [i |-> q - 1, j |-> c]
                     ELSE best
    IN  Scan(k)

\* The cheapest cell of column c among its first k rows.
RECURSIVE ColMinScan(_, _, _, _, _)
ColMinScan(o, c, ar, s2, k) ==
    IF k = 0 THEN NoCell
    ELSE LET best == ColMinScan(o, c, ar, s2, k - 1)
         IN  IF ar[k - 1] /\ s2[k - 1] > 0
                /\ (best.i = -1
                    \/ o.cost_matrix[k - 1][c] < o.cost_matrix[best.i][best.j])
             THEN [i |-> k - 1, j |-> c]
             ELSE best

\* Step 4: (min_i, min_j) in the selected row or column.
VamMinCell(o, t, ar, ac, s2, d2) ==
    IF t.is_row THEN RowMinScan(o, t.idx, ac, d2, o.n)
    ELSE ColMinScan(o, t.idx, ar, s2, o.m)

\* The condition of the while loop.
VamLoopCond(o, ar, ac, s2, d2) ==
    /\ \E r \in Range(o.m) : s2[r] > 0 /\ ar[r]
    /\ \E c \in Range(o.n) : d2[c] > 0 /\ ac[c]

\* Steps 1 to 3: the target of the iteration.
VamTarget(o, ar, ac, s2, d2) ==
    MaxPenalty(o, RowPen(o, ar, ac, s2, d2), ColPen(o, ar, ac, s2, d2))

\* active_rows = [True] * self.m; active_cols = [True] * self.n
VamEnter(o) ==
    [EnterLocals(o) EXCEPT !.active_rows = Repeat(TRUE, o.m),
                           !.active_cols = Repeat(TRUE, o.n)]

\* One iteration of the while loop; either `break` leaves the loop.
VamIter(o, st) ==
    LET t == VamTarget(o, st.active_rows, st.active_cols, st.s, st.d)
        f == IF t.idx = -1 THEN NoCell
             ELSE VamMinCell(o, t, st.active_rows, st.active_cols, st.s, st.d)
        a == Allocated(st, f.i, f.j, Min(st.s[f.i], st.d[f.j]))
    IN  IF f.i = -1
        THEN [st EXCEPT !.broke = TRUE,
                        !.max_pen = t.max_pen, !.is_row = t.is_row, !.idx = t.idx]
        ELSE [a EXCEPT !.i = f.i,
                       !.j = f.j,
                       !.max_pen = t.max_pen,
                       !.is_row = t.is_row,
                       !.idx = t.idx,
                       !.active_rows[f.i] = IF a.s[f.i] = 0 THEN FALSE ELSE @,
                       !.active_cols[f.j] = IF a.d[f.j] = 0 THEN FALSE ELSE @]

SolveVam ==
    /\ pc = "idle"
    /\ Enter("vam", "vam", VamEnter(self))

VamStep ==
    /\ pc = "vam"
    /\ VamLoopCond(self, loc.active_rows, loc.active_cols, loc.s, loc.d)
    /\ Iterate(VamIter(self, loc))
    /\ IF loc'.broke
       THEN /\ pc' = "done"
            /\ total' = PrintCostEquation(self, loc'.alloc)
       ELSE UNCHANGED <<pc, total>>

VamEnd ==
    /\ pc = "vam"
    /\ ~VamLoopCond(self, loc.active_rows, loc.active_cols, loc.s, loc.d)
    /\ Finish
    /\ UNCHANGED <<self, loc>>

----------------------------------------------------------------------------
\* A whole call of a solve method on the object o: the locals when the method
\* ends.

RECURSIVE NwcLoop(_, _)
NwcLoop(o, st) == IF NwcCond(o, st) THEN NwcLoop(o, NwcIter(o, st)) ELSE st

RECURSIVE LcmLoop(_, _)
LcmLoop(o, st) ==
    IF LcmLoopCond(o, st.d) /\ ~st.broke THEN LcmLoop(o, LcmIter(o, st)) ELSE st

RECURSIVE LcmDummyLoop(_, _)
LcmDummyLoop(o, st) ==
    IF LcmDummyCond(o, st) THEN LcmDummyLoop(o, LcmDummyIter(o, st)) ELSE st

RECURSIVE VamLoop(_, _)
VamLoop(o, st) ==
    IF VamLoopCond(o, st.active_rows, st.active_cols, st.s, st.d) /\ ~st.broke
    THEN VamLoop(o, VamIter(o, st))
    ELSE st

Run(name, o) ==
    IF name = "nwc" THEN NwcLoop(o, NwcEnter(o))
    ELSE IF name = "lcm" THEN LcmDummyLoop(o, LcmLoop(o, EnterLocals(o)))
    ELSE VamLoop(o, VamEnter(o))

----------------------------------------------------------------------------
\* The caller: the method returns and another solve may follow.

Return ==
    /\ pc = "done"
    /\ pc' = "idle"
    /\ method' = "none"
    /\ loc' = NoLocals
    /\ total' = -1
    /\ reused' = TRUE
    /\ UNCHANGED <<arg, self, initial_table>>

----------------------------------------------------------------------------
\* The inputs: every cost matrix of m x n costs in 0 .. MaxCost and every
\* supply and demand list of quantities in 0 .. MaxQty, m in SourceCounts,
\* n in DestinationCounts.

Init ==
    \E mm \in SourceCounts, nn \in DestinationCounts :
      \E cm \in [Range(mm) -> [Range(nn) -> 0 .. MaxCost]],
         sup \in [Range(mm) -> 0 .. MaxQty],
         dem \in [Range(nn) -> 0 .. MaxQty] :
        /\ arg = [cost_matrix |-> cm, supply |-> sup, demand |-> dem,
                  m |-> mm, n |-> nn]
        /\ self = TransportationSolver(cm, sup, dem, mm, nn)
        /\ pc = "idle"
        /\ method = "none"
        /\ loc = NoLocals
        /\ total = -1
        /\ reused = FALSE
        /\ initial_table = None

Next ==
    \/ SolveNwc
    \/ NwcStep
    \/ NwcEnd
    \/ SolveLeastCost
    \/ LcmStep
    \/ LcmLoopExit
    \/ LcmDummyStep
    \/ LcmEnd
    \/ SolveVam
    \/ VamStep
    \/ VamEnd
    \/ Return

Spec == Init /\ [][Next]_vars

----------------------------------------------------------------------------
\* Properties.

\* The object __init__ makes from the constructor's arguments.
Fresh == TransportationSolver(arg.cost_matrix, arg.supply, arg.demand, arg.m, arg.n)

Solving == pc \in {"nwc", "lcm", "lcm_dummy", "vam", "done"}

\* The sum of f[e] over the finite set S.
RECURSIVE SumOver(_, _)
SumOver(f, S) ==
    IF S = {} THEN 0
    ELSE LET e == CHOOSE e \in S : TRUE IN f[e] + SumOver(f, S \ {e})

RowSum(a, r) == SumOver(a[r], DOMAIN a[r])
ColSum(a, c) == SumOver([r \in DOMAIN a |-> a[r][c]], DOMAIN a)

\* C1: after __init__ the total supply equals the total demand; dummy_type
\* is "demand" iff the original total supply exceeds the original total
\* demand (one destination with the difference as demand and a zero cost in
\* every row is appended, n grows by 1), "supply" iff it is smaller (one
\* source with the difference as supply and a row of n zero costs is
\* appended, m grows by 1), and None with supply, demand, cost matrix, m and
\* n unchanged iff the totals are equal.
C1_Balanced ==
    LET ts == SumOver(arg.supply, DOMAIN arg.supply)
        td == SumOver(arg.demand, DOMAIN arg.demand)
    IN  pc = "idle" =>
        /\ SumOver(self.supply, DOMAIN self.supply)
             = SumOver(self.demand, DOMAIN self.demand)
        /\ DOMAIN self.supply = Range(self.m)
        /\ DOMAIN self.demand = Range(self.n)
        /\ DOMAIN self.cost_matrix = Range(self.m)
        /\ \A r \in Range(self.m) : DOMAIN self.cost_matrix[r] = Range(self.n)
        /\ (self.dummy_type = "demand") <=> (ts > td)
        /\ (self.dummy_type = "supply") <=> (ts < td)
        /\ (self.dummy_type = "None") <=> (ts = td)
        /\ ts > td =>
             /\ self.m = arg.m /\ self.n = arg.n + 1
             /\ self.supply = arg.supply
             /\ self.demand[arg.n] = ts - td
             /\ \A c \in Range(arg.n) : self.demand[c] = arg.demand[c]
             /\ \A r \in Range(arg.m) :
                  /\ self.cost_matrix[r][arg.n] = 0
                  /\ \A c \in Range(arg.n) :
                       self.cost_matrix[r][c] = arg.cost_matrix[r][c]
        /\ ts < td =>
             /\ self.m = arg.m + 1 /\ self.n = arg.n
             /\ self.demand = arg.demand
             /\ self.supply[arg.m] = td - ts
             /\ \A r \in Range(arg.m) :
                  /\ self.supply[r] = arg.supply[r]
                  /\ self.cost_matrix[r] = arg.cost_matrix[r]
             /\ \A c \in Range(arg.n) : self.cost_matrix[arg.m][c] = 0
        /\ ts = td =>
             /\ self.m = arg.m /\ self.n = arg.n
             /\ self.supply = arg.supply
             /\ self.demand = arg.demand
             /\ self.cost_matrix = arg.cost_matrix

\* A solver whose construction added a dummy source of supply 2 to two
\* real sources.
C1_Witness ==
    /\ pc = "idle"
    /\ self.dummy_type = "supply"
    /\ arg.m = 2 /\ self.m = 3
    /\ self.supply[2] = 2
    /\ arg.supply[0] > 0

\* C2: when solve_nwc, solve_least_cost or solve_vam finishes, every row of
\* the allocation matrix sums to the balanced supply of its source, every
\* column to the balanced demand of its destination, and no supply and no
\* demand remains.
C2_Conservation ==
    pc = "done" =>
        /\ \A r \in Range(self.m) : RowSum(loc.alloc, r) = self.supply[r]
        /\ \A c \in Range(self.n) : ColSum(loc.alloc, c) = self.demand[c]
        /\ \A r \in Range(self.m) : loc.s[r] = 0
        /\ \A c \in Range(self.n) : loc.d[c] = 0

\* A finished North-West Corner solve with a dummy destination, a source
\* without supply, two steps that moved goods and one that moved none.
C2_Witness ==
    /\ pc = "done"
    /\ method = "nwc"
    /\ self.dummy_type = "demand"
    /\ \E r \in Range(self.m) : self.supply[r] = 0
    /\ Cardinality({k \in 1 .. Len(loc.log) : loc.log[k][3] > 0}) = 2
    /\ \E k \in 1 .. Len(loc.log) : loc.log[k][3] = 0

\* C3: during a solve every remaining supply and demand is >= 0, every
\* allocated quantity is >= 0, and a step leaves no entry of s or d greater
\* than it was before the step.
C3_NonNegativeNonIncreasing ==
    Solving =>
        /\ \A r \in Range(self.m) : loc.s[r] >= 0
        /\ \A c \in Range(self.n) : loc.d[c] >= 0
        /\ \A k \in 1 .. Len(loc.log) : loc.log[k][3] >= 0
        /\ loc.log # <<>> =>
             /\ loc.x >= 0
             /\ \A r \in Range(self.m) : loc.s[r] <= loc.before.s[r]
             /\ \A c \in Range(self.n) : loc.d[c] <= loc.before.d[c]

\* A step of Vogel's method that took 1 unit from a source with 2 units
\* left, which keeps 1.
C3_Witness ==
    /\ pc = "vam"
    /\ loc.log # <<>>
    /\ loc.x = 1
    /\ loc.before.s[loc.i] = 2
    /\ loc.s[loc.i] = 1

\* The dummy source and the dummy destination of the balanced problem.
IsDummySource(o, r) == o.dummy_type = "supply" /\ r = o.m - 1
IsDummyDestination(o, c) == o.dummy_type = "demand" /\ c = o.n - 1

\* The cost of the flows between real sources and real destinations.
RealCost(o, a) ==
    SumOver([p \in Range(o.m) \X Range(o.n) |->
                IF IsDummySource(o, p[1]) \/ IsDummyDestination(o, p[2]) THEN 0
                ELSE o.cost_matrix[p[1]][p[2]] * a[p[1]][p[2]]],
            Range(o.m) \X Range(o.n))

\* C4: the total _print_cost_equation returns for the allocation of a
\* finished solve is the sum of cost * quantity over the real cells; the
\* flows of a dummy source or a dummy destination add nothing to it.
C4_DummyExcluded ==
    pc = "done" => total = RealCost(self, loc.alloc)

\* A finished solve in which a dummy source ships goods and the real flows
\* cost something.
C4_Witness ==
    /\ pc = "done"
    /\ self.dummy_type = "supply"
    /\ \E c \in Range(self.n) : loc.alloc[self.m - 1][c] > 0
    /\ total > 0

\* C5: a sequence of solves leaves cost_matrix, supply, demand, m, n and
\* dummy_type of the object as __init__ made them, and a method that
\* finishes after other solves have run on the object has made the steps,
\* the allocation matrix and the total cost of the same method run on a
\* fresh solver.
C5_NoInterference ==
    /\ self = Fresh
    /\ (pc = "done" /\ reused) =>
         LET first == Run(method, Fresh)
         IN  /\ loc.log = first.log
             /\ loc.alloc = first.alloc
             /\ total = PrintCostEquation(Fresh, first.alloc)

\* The least-cost method finishes on an object that has been solved before,
\* after steps that used up supply and demand.
C5_Witness ==
    /\ pc = "done"
    /\ reused
    /\ method = "lcm"
    /\ Len(loc.log) >= 2
    /\ \E r \in Range(self.m) : self.supply[r] > 0 /\ loc.s[r] = 0

\* C6: a solve makes at most m + n - 1 allocation steps, m and n counted
\* after balancing (for solve_least_cost the loop and the dummy pass
\* together).
C6_StepBound ==
    Solving =>
        /\ Len(loc.log) <= self.m + self.n - 1
        /\ loc.step = Len(loc.log) + 1

\* A finished solve that needed all m + n - 1 = 4 steps.
C6_Witness ==
    /\ pc = "done"
    /\ self.m + self.n = 5
    /\ Len(loc.log) = 4

TotalOf(v) == SumOver(v, DOMAIN v)

\* C7 as stated: every iteration of every method allocates a quantity
\* x > 0, so that no step is recorded with a zero allocation.
C7_EveryStepPositive ==
    Solving => \A k \in 1 .. Len(loc.log) : loc.log[k][3] > 0

\* C7 as amended: every iteration of solve_least_cost and of solve_vam
\* allocates x > 0 and decreases the total remaining demand; an iteration of
\* solve_nwc allocates x >= 0, which is 0 exactly when the row or the column
\* of the cursor has nothing left, never increases the total remaining
\* demand, and moves the cursor by one row or one column.
C7_ProgressAmended ==
    (Solving /\ loc.log # <<>>) =>
        /\ method \in {"lcm", "vam"} =>
             /\ \A k \in 1 .. Len(loc.log) : loc.log[k][3] > 0
             /\ TotalOf(loc.d) < TotalOf(loc.before.d)
        /\ method = "nwc" =>
             /\ \A k \in 1 .. Len(loc.log) :
                  /\ loc.log[k][3] >= 0
                  /\ loc.log[k][1] + loc.log[k][2] = k - 1
             /\ loc.i + loc.j = Len(loc.log)
             /\ TotalOf(loc.d) <= TotalOf(loc.before.d)
             /\ TotalOf(loc.d) = TotalOf(loc.before.d) - loc.x
             /\ (loc.x = 0) <=>
                  (loc.before.s[loc.log[Len(loc.log)][1]] = 0
                     \/ loc.before.d[loc.log[Len(loc.log)][2]] = 0)

\* A step of the North-West Corner method that allocated nothing, after one
\* that used up a row and a column together.
C7_Witness ==
    /\ pc = "nwc"
    /\ Len(loc.log) = 2
    /\ loc.log[1][3] > 0
    /\ loc.x = 0
    /\ self.supply[0] > 0

\* C8: on a balanced problem no early exit is taken: _find_min_cost finds a
\* cell whenever the least-cost loop runs, and Vogel's loop finds a target
\* and a cell whenever its condition holds.
C8_NoEarlyExit ==
    /\ ~loc.broke
    /\ (pc = "lcm" /\ LcmLoopCond(self, loc.d)) =>
         FindMinCost(self, loc.s, loc.d, DummyCol(self)).i # -1
    /\ (pc = "vam"
          /\ VamLoopCond(self, loc.active_rows, loc.active_cols, loc.s, loc.d)) =>
         /\ VamTarget(self, loc.active_rows, loc.active_cols, loc.s, loc.d).max_pen >= 0
         /\ VamMinCell(self,
                       VamTarget(self, loc.active_rows, loc.active_cols, loc.s, loc.d),
                       loc.active_rows, loc.active_cols, loc.s, loc.d).i # -1

\* The least-cost loop with a dummy destination, real demand left after two
\* steps and a cell found for the third.
C8_Witness ==
    /\ pc = "lcm"
    /\ self.dummy_type = "demand"
    /\ Len(loc.log) = 2
    /\ LcmLoopCond(self, loc.d)
    /\ FindMinCost(self, loc.s, loc.d, DummyCol(self)).i # -1

\* C9: no cell is assigned twice in one solve, so every cell of the
\* allocation matrix holds the sum of the quantities allocated to it and
\* never decreases.
C9_CellsWrittenOnce ==
    Solving =>
        /\ \A r \in Range(self.m), c \in Range(self.n) :
             /\ loc.writes[r][c] <= 1
             /\ loc.alloc[r][c] = loc.shipped[r][c]
             /\ loc.log # <<>> => loc.alloc[r][c] >= loc.before.alloc[r][c]
        /\ \A k, l \in 1 .. Len(loc.log) :
             (loc.log[k][1] = loc.log[l][1] /\ loc.log[k][2] = loc.log[l][2]) => k = l

\* Vogel's method finished after writing four cells, three of them with
\* goods.
C9_Witness ==
    /\ pc = "done"
    /\ method = "vam"
    /\ Len(loc.log) = 4
    /\ Cardinality({p \in Range(self.m) \X Range(self.n) :
                      loc.alloc[p[1]][p[2]] > 0}) >= 3

\* The real cells the least-cost method may allocate to, given s2 and d2.
RealCandidates(o, s2, d2) ==
    {p \in Range(o.m) \X Range(o.n) :
        s2[p[1]] > 0 /\ d2[p[2]] > 0 /\ ~IsDummyDestination(o, p[2])}

\* p comes before q in row-major order.
RowMajorBefore(p, q) == p[1] < q[1] \/ (p[1] = q[1] /\ p[2] <= q[2])

\* The steps of the log into the dummy column.
DummySteps(o, log) == {k \in 1 .. Len(log) : log[k][2] = o.n - 1}

\* C10: with a dummy destination, every step solve_least_cost makes while a
\* real destination has demand left goes to the cheapest real cell with
\* supply and demand left, the first in row-major order among equals; the
\* dummy column is written only once no real demand is left, by sources in
\* increasing order, each shipping min(s[i], d[dummy]), and every source
\* with supply left over ships.
C10_LeastCostOrder ==
    (method = "lcm" /\ self.dummy_type = "demand" /\ loc.log # <<>>) =>
        LET last == loc.log[Len(loc.log)]
            p == <<last[1], last[2]>>
            b == loc.before
            dc == self.n - 1
        IN  /\ last[3] = Min(b.s[p[1]], b.d[p[2]])
            /\ (\E c \in Range(self.n - 1) : b.d[c] > 0) =>
                 /\ p \in RealCandidates(self, b.s, b.d)
                 /\ \A q \in RealCandidates(self, b.s, b.d) :
                      /\ self.cost_matrix[p[1]][p[2]] <= self.cost_matrix[q[1]][q[2]]
                      /\ self.cost_matrix[p[1]][p[2]] = self.cost_matrix[q[1]][q[2]]
                           => RowMajorBefore(p, q)
            /\ (\A c \in Range(self.n - 1) : b.d[c] = 0) =>
                 /\ p[2] = dc
                 /\ b.s[p[1]] > 0
                 /\ \A r \in Range(p[1]) : b.s[r] = 0
            /\ \A k, l \in DummySteps(self, loc.log) :
                 k < l => loc.log[k][1] < loc.log[l][1]
            /\ \A k \in DummySteps(self, loc.log), l \in 1 .. Len(loc.log) :
                 l > k => l \in DummySteps(self, loc.log)
            /\ pc = "done" => \A r \in Range(self.m) : loc.s[r] = 0

\* The least-cost method finished after serving a real destination and then
\* draining two sources into the dummy column.
C10_Witness ==
    /\ pc = "done"
    /\ method = "lcm"
    /\ self.dummy_type = "demand"
    /\ Cardinality(DummySteps(self, loc.log)) = 2
    /\ Len(loc.log) >= 3

\* The second-smallest minus the smallest of the costs cost[e], e in the
\* set S of at least two lines (equal costs count twice); 0 for one line.
PenaltyOver(cost, S) ==
    IF Cardinality(S) = 1 THEN 0
    ELSE LET lo == CHOOSE e \in S : \A f \in S : cost[e] <= cost[f]
             nx == CHOOSE e \in S \ {lo} : \A f \in S \ {lo} : cost[e] <= cost[f]
         IN  cost[nx] - cost[lo]

\* The lines with quantity left, and their penalties, given s2 and d2.
OpenRows(s2) == {r \in DOMAIN s2 : s2[r] > 0}
OpenCols(d2) == {c \in DOMAIN d2 : d2[c] > 0}
RowPenaltyOf(o, r, d2) == PenaltyOver(o.cost_matrix[r], OpenCols(d2))
ColPenaltyOf(o, c, s2) ==
    PenaltyOver([r \in Range(o.m) |-> o.cost_matrix[r][c]], OpenRows(s2))

\* C11: in every iteration of solve_vam the target is a row with supply
\* left or a column with demand left whose penalty (second-smallest minus
\* smallest cost over the columns, or rows, with quantity left; 0 for one) is
\* the greatest of all such lines; among equal greatest penalties the lowest
\* row wins over every column and the lowest column over later columns; the
\* cell is the cheapest cell of the target line among the lines with
\* quantity left, the lowest index among equals; a dummy row or column is
\* one of the lines like any other.
C11_VamSelection ==
    (method = "vam" /\ loc.log # <<>>) =>
        LET b == loc.before
            last == loc.log[Len(loc.log)]
            r == last[1]
            c == last[2]
            rows == OpenRows(b.s)
            cols == OpenCols(b.d)
        IN  /\ ~loc.broke
            /\ r \in rows /\ c \in cols
            /\ \A q \in rows : RowPenaltyOf(self, q, b.d) <= loc.max_pen
            /\ \A q \in cols : ColPenaltyOf(self, q, b.s) <= loc.max_pen
            /\ loc.is_row =>
                 /\ loc.idx = r
                 /\ RowPenaltyOf(self, r, b.d) = loc.max_pen
                 /\ \A q \in rows :
                      RowPenaltyOf(self, q, b.d) = loc.max_pen => r <= q
                 /\ \A q \in cols :
                      /\ self.cost_matrix[r][c] <= self.cost_matrix[r][q]
                      /\ self.cost_matrix[r][c] = self.cost_matrix[r][q] => c <= q
            /\ ~loc.is_row =>
                 /\ loc.idx = c
                 /\ ColPenaltyOf(self, c, b.s) = loc.max_pen
                 /\ \A q \in rows : RowPenaltyOf(self, q, b.d) < loc.max_pen
                 /\ \A q \in cols :
                      ColPenaltyOf(self, q, b.s) = loc.max_pen => c <= q
                 /\ \A q \in rows :
                      /\ self.cost_matrix[r][c] <= self.cost_matrix[q][c]
                      /\ self.cost_matrix[r][c] = self.cost_matrix[q][c] => r <= q
            /\ loc.x = Min(b.s[r], b.d[c])

\* An iteration of Vogel's method with a dummy destination in which two rows
\* tie at the greatest penalty 1, which the zero cost of the dummy column
\* makes, and the first row ships into the dummy column.
C11_Witness ==
    /\ pc = "vam"
    /\ self.dummy_type = "demand"
    /\ Len(loc.log) = 1
    /\ loc.is_row /\ loc.idx = 0 /\ loc.max_pen = 1
    /\ 1 \in OpenRows(loc.before.s)
    /\ RowPenaltyOf(self, 1, loc.before.d) = 1
    /\ loc.j = self.n - 1

\* C12: the Demand row of the initial problem table holds, for every
\* destination k of the balanced problem, the demand of destination k.
C12_DemandRow ==
    initial_table # None =>
        \A k \in Range(self.n) : initial_table.dem_row[k] = self.demand[k]

====
